---- MODULE Spec2Model ----
(***************************************************************************)
(* State-machine model of the image2svg front end (src/app/layout.tsx,     *)
(* component Home): the parameter/preset store, image intake, the debounce *)
(* effect, and the conversion orchestrator with its output sanitizer.      *)
(* Spec is Home; SanitizerSpec is the sanitizer applied to markup put      *)
(* together from fragments; LoginSpec is the credential gate               *)
(* (src/app/components/Login.tsx).                                         *)
(*                                                                         *)
(* Every event handler, timer callback and promise continuation of the     *)
(* component is one action: JavaScript runs each to completion, and React  *)
(* commits the state updates of one handler together, after which the      *)
(* effects whose dependencies changed run.  The debounce effect is         *)
(* therefore part of every action that changes params or originalImage.    *)
(*                                                                         *)
(* Markup is a sequence of one-character strings.  Floating point          *)
(* parameters are held in tenths (alphamax 1.0 is 10).  Time is counted in *)
(* milliseconds, and a timer fires when its delay has passed, not later.   *)
(*                                                                         *)
(* showAdvanced only shows or hides the controls that call updateParam and *)
(* is left out: updateParam is taken to be callable in every state.        *)
(***************************************************************************)
EXTENDS Integers, Sequences, FiniteSets

(***************************************************************************)
(* Bounds of the model.                                                    *)
(***************************************************************************)
\* How many user gestures (edit, preset click, file choice, drag, drop, clear)
\* one behaviour holds.
MaxUserEvents == 2

\* How many fragments the markup handed to the sanitizer on its own is made of.
MaxPieces == 3

\* How many times the login form is submitted in one behaviour.
MaxSubmits == 2

(***************************************************************************)
(* Text helpers.                                                           *)
(***************************************************************************)
\* pat occurs in s at position i
MatchAt(s, i, pat) ==
    /\ i + Len(pat) - 1 <= Len(s)
    /\ \A k \in 1..Len(pat) : s[i + k - 1] = pat[k]

\* String.prototype.startsWith
StartsWith(s, prefix) == MatchAt(s, 1, prefix)

\* Positions j >= from at which pat occurs in s
Occurrences(s, from, pat) == {j \in from..Len(s) : MatchAt(s, j, pat)}

SetMin(S) == CHOOSE m \in S : \A x \in S : m <= x

\* s.replace(/pat/g, rep) for a literal pattern: leftmost matches, scanned
\* left to right, never overlapping, the replacement not rescanned.
RECURSIVE ReplaceFrom(_, _, _, _)
ReplaceFrom(s, i, pat, rep) ==
    IF i > Len(s) THEN <<>>
    ELSE IF MatchAt(s, i, pat)
         THEN rep \o ReplaceFrom(s, i + Len(pat), pat, rep)
         ELSE <<s[i]>> \o ReplaceFrom(s, i + 1, pat, rep)

ReplaceAll(s, pat, rep) == ReplaceFrom(s, 1, pat, rep)

\* s.replace(/open[^q]*q/g, "") : after `open`, everything up to and
\* including the first character q.
RECURSIVE RemoveUpToChar(_, _, _, _)
RemoveUpToChar(s, i, open, q) ==
    IF i > Len(s) THEN <<>>
    ELSE IF MatchAt(s, i, open)
            /\ \E j \in (i + Len(open))..Len(s) : s[j] = q
         THEN RemoveUpToChar(s,
                  SetMin({j \in (i + Len(open))..Len(s) : s[j] = q}) + 1,
                  open, q)
         ELSE <<s[i]>> \o RemoveUpToChar(s, i + 1, open, q)

\* s.replace(/open[\s\S]*?close/g, "") : after `open`, everything up to and
\* including the first following `close` (lazy quantifier).
RECURSIVE RemoveBlocks(_, _, _, _)
RemoveBlocks(s, i, open, close) ==
    IF i > Len(s) THEN <<>>
    ELSE IF MatchAt(s, i, open)
            /\ Occurrences(s, i + Len(open), close) # {}
         THEN RemoveBlocks(s,
                  SetMin(Occurrences(s, i + Len(open), close)) + Len(close),
                  open, close)
         ELSE <<s[i]>> \o RemoveBlocks(s, i + 1, open, close)

(***************************************************************************)
(* The output sanitizer, cleanSvgResponse.                                 *)
(***************************************************************************)
NsPrefix == <<"n", "s", "0", ":">>
NsDeclOpen == <<"x", "m", "l", "n", "s", ":", "n", "s", "0", "=", "\"">>
Quote == "\""
BlackFill ==
    <<"f", "i", "l", "l", "=", "\"", "#", "0", "0", "0", "0", "0", "0", "\"">>
WhiteFill ==
    <<"f", "i", "l", "l", "=", "\"", "#", "f", "f", "f", "f", "f", "f", "\"">>
MetaOpen == <<"<", "m", "e", "t", "a", "d", "a", "t", "a", ">">>
MetaClose == <<"<", "/", "m", "e", "t", "a", "d", "a", "t", "a", ">">>

StripNsPrefix(s) == ReplaceAll(s, NsPrefix, <<>>)
StripNsDecl(s) == RemoveUpToChar(s, 1, NsDeclOpen, Quote)
ForceWhiteFill(s) == ReplaceAll(s, BlackFill, WhiteFill)
StripMetadata(s) == RemoveBlocks(s, 1, MetaOpen, MetaClose)

cleanSvgResponse(svgText) ==
    StripMetadata(ForceWhiteFill(StripNsDecl(StripNsPrefix(svgText))))

(***************************************************************************)
(* Data: ProcessorParams, presets, files, response bodies.                 *)
(***************************************************************************)
\* DEFAULT_PARAMS; alphamax and optimize_tolerance in tenths.  show_debug is
\* optional and absent from the default object.
DEFAULT_PARAMS ==
    [threshold |-> 128, denoise |-> 0, turdsize |-> 10, alphamax |-> 10,
     optimize_tolerance |-> 2, inverted |-> FALSE, fill_holes |-> FALSE]

\* type PresetKey
PresetKeys == {"clean", "photo", "laser", "custom"}

\* What GET /presets may answer.  The service is outside the repository; the
\* component documents its keys as 'clean', 'photo', 'laser'.  Two catalogs
\* are tried, one with and one without a "clean" entry.
CleanPreset ==
    [name |-> "Clean", description |-> "clean graphics",
     params |-> [threshold |-> 128, denoise |-> 0, turdsize |-> 5,
                 alphamax |-> 10, optimize_tolerance |-> 2,
                 inverted |-> FALSE, fill_holes |-> FALSE]]
PhotoPreset ==
    [name |-> "Photo", description |-> "photographs",
     params |-> [threshold |-> 140, denoise |-> 3, turdsize |-> 15,
                 alphamax |-> 12, optimize_tolerance |-> 2,
                 inverted |-> FALSE, fill_holes |-> TRUE]]
LaserPreset ==
    [name |-> "Laser", description |-> "laser cnc",
     params |-> [threshold |-> 110, denoise |-> 1, turdsize |-> 8,
                 alphamax |-> 8, optimize_tolerance |-> 2,
                 inverted |-> TRUE, fill_holes |-> TRUE]]
CatalogWithClean ==
    [k \in {"clean", "photo"} |->
        IF k = "clean" THEN CleanPreset ELSE PhotoPreset]
CatalogWithoutClean ==
    [k \in {"photo", "laser"} |->
        IF k = "photo" THEN PhotoPreset ELSE LaserPreset]
ServerCatalogs == {CatalogWithClean, CatalogWithoutClean}

\* useState<Record<string, Preset>>({})
EmptyCatalog == [k \in {} |-> CleanPreset]

\* The controls of the settings panel and the values tried for each:
\* updateParam(key, value).
EditKeys == {"threshold", "show_debug", "inverted"}
EditValues(key) ==
    CASE key = "threshold" -> {128, 100}
      [] key = "show_debug" -> {TRUE}
      [] key = "inverted" -> {TRUE}

\* Files the user may choose or drop, and the media type each reports.
PngType == <<"i", "m", "a", "g", "e", "/", "p", "n", "g">>
PdfType ==
    <<"a", "p", "p", "l", "i", "c", "a", "t", "i", "o", "n", "/", "p", "d", "f">>
ImagePrefix == <<"i", "m", "a", "g", "e", "/">>
Files == {"logo.png", "photo.png", "doc.pdf"}
FileType(file) == IF file = "doc.pdf" THEN PdfType ELSE PngType

\* useState<string | null>(null): null, or a string
Null == [kind |-> "null"]
Str(chars) == [kind |-> "string", chars |-> chars]

\* FileReader.readAsDataURL: "data:<type>;base64,<content>", held as the
\* scheme and the file it encodes
DataUrl(file) == Str(<<"data:", file>>)

\* Bodies POST /vectorize may answer with.
RawBodyNs == <<"<">> \o NsPrefix \o <<"g", " ">> \o BlackFill \o <<">">>
RawBodyPlain == <<"<", "g", ">">>
RawBodies == {RawBodyNs, RawBodyPlain}

\* cleanSvgResponse on those bodies
CleanSvg == [rawSvg \in RawBodies |-> cleanSvgResponse(rawSvg)]

(***************************************************************************)
(* State of the component Home.                                            *)
(***************************************************************************)
VARIABLES
    originalImage,    \* useState: the data URL of the loaded image, or null
    vectorSvg,        \* useState: the sanitized markup, or null
    isProcessing,     \* useState: the in-flight flag
    params,           \* useState: the current ProcessorParams
    paramsRef,        \* which object params is: React compares by identity
    presets,          \* useState: the preset catalog
    selectedPreset,   \* useState: the selection
    isDragging,       \* useState: the drag flag
    presetsFetch,     \* the mount effect's fetch: "pending", "done", "failed"
    reads,            \* files being read, in the order they were accepted
    timers,           \* pending setTimeout callbacks of the debounce effect
    preparing,        \* processImage calls awaiting the image's blob
    inflight,         \* processImage calls awaiting the service's response
    \* History variables, read by the properties only.
    userEvents,       \* user gestures so far
    issued,           \* conversion requests issued so far
    sinceChange,      \* ms since params or originalImage last changed
    burstReqs,        \* requests issued since that change
    burstChanges,     \* changes of the current burst (each < 500 ms after
                      \* the one before), counted to 2
    lastParamsChange, \* what last changed params: "init", "edit", "preset", "catalog"
    lastLoad,         \* what the last completed file read found present
    lastOk,           \* the last successful conversion response
    lastOutcome,      \* how the last resolved conversion ended
    resetSinceOk,     \* an image load or clear followed lastOk
    batchFirst,       \* the id of the last request issued with none in flight
    droppedOther,     \* the last drop was of a file that is no image, made
                      \* while isDragging was true
    race,             \* two files accepted before either read completed:
                      \* how far their reads are, and the file accepted last
    \* The output sanitizer on its own.
    markup,           \* the markup handed to cleanSvgResponse
    cleanSvg,         \* what it returned, or null before the call
    cleanAgain,       \* what it returned for cleanSvg, or null before the call
    \* State of the component Login.
    email,            \* useState: the e-mail field
    password,         \* useState: the password field
    error,            \* useState: the message shown, '' for none
    loading,          \* useState: the flag that disables the submit button
    signIns,          \* signInWithEmailAndPassword calls awaiting their result
    authUser,         \* the identity provider's signed-in user, or null
    submits,          \* submissions so far
    lastSignIn        \* how the last resolved sign-in ended, and what error
                      \* its submission found on the screen

homeVars ==
    <<originalImage, vectorSvg, isProcessing, params, paramsRef, presets,
      selectedPreset, isDragging, presetsFetch, reads, timers, preparing,
      inflight,
      userEvents, issued, sinceChange, burstReqs, burstChanges,
      lastParamsChange, lastLoad, lastOk, lastOutcome, resetSinceOk,
      batchFirst, droppedOther, race>>
sanitizerVars == <<markup, cleanSvg, cleanAgain>>
loginVars ==
    <<email, password, error, loading, signIns, authUser, submits, lastSignIn>>
\* What no handler of Home touches
outsideHome == <<sanitizerVars, loginVars>>

vars == <<homeVars, sanitizerVars, loginVars>>

storeVars == <<params, paramsRef, selectedPreset, lastParamsChange>>
catalogVars == <<presets, presetsFetch>>
imageVars == <<originalImage, vectorSvg, lastLoad, resetSinceOk>>
intakeVars == <<reads, isDragging, droppedOther, race>>
debounceVars == <<timers, sinceChange, burstReqs, burstChanges>>
convertVars ==
    <<isProcessing, preparing, inflight, issued, lastOk, lastOutcome,
      batchFirst>>

\* setTimeout(..., 500)
DEBOUNCE_MS == 500

\* Time advances by one of these many ms, or up to the next timer's deadline
\* when that comes sooner.
Steps == {200, 500}
SinceCap == DEBOUNCE_MS + 100

NoFile == "(no file)"
NoLoad == [done |-> FALSE, image |-> FALSE, svg |-> FALSE, busy |-> FALSE]
NoResponse == [id |-> 0, image |-> Null, body |-> <<>>]
NoRace == [phase |-> "none", last |-> NoFile]
VoidRace == [phase |-> "void", last |-> NoFile]

\* JavaScript truthiness of a string | null
Truthy(v) == v # Null /\ v.chars # <<>>

Min(a, b) == IF a <= b THEN a ELSE b

\* s without its i-th element
Remove(s, i) == SubSeq(s, 1, i - 1) \o SubSeq(s, i + 1, Len(s))

(***************************************************************************)
(* The debounce effect: useEffect(..., [params, originalImage,             *)
(* processImage]).  React runs its cleanup and then its body after every   *)
(* commit that changed a dependency.  The callback it schedules closes     *)
(* over the originalImage and the processImage (hence the params) of that  *)
(* render.                                                                 *)
(***************************************************************************)
\* The cleanup forgotten: the timer of the previous run stays armed.
TimersAfterCleanup_NotCleared == {[t EXCEPT !.current = FALSE] : t \in timers}

\* return () => clearTimeout(timer): the timer the previous run armed is
\* cancelled
TimersAfterCleanup == {t \in timers : ~t.current}

\* The callback holding the params of the render before.
DebounceEffect_StaleParams(image, prm) ==
    /\ timers' = TimersAfterCleanup
                    \cup {[left |-> DEBOUNCE_MS, image |-> image,
                           params |-> params, current |-> TRUE]}
    /\ burstChanges' = IF sinceChange < DEBOUNCE_MS
                       THEN Min(burstChanges + 1, 2) ELSE 1
    /\ sinceChange' = 0
    /\ burstReqs' = 0

DebounceEffect(image, prm) ==
    /\ timers' = TimersAfterCleanup
                    \cup {[left |-> DEBOUNCE_MS, image |-> image,
                           params |-> prm, current |-> TRUE]}
    /\ burstChanges' = IF sinceChange < DEBOUNCE_MS
                       THEN Min(burstChanges + 1, 2) ELSE 1
    /\ sinceChange' = 0
    /\ burstReqs' = 0

\* The mount of Home: the state after the first render and its effects.
HomeMount ==
    /\ originalImage = Null
    /\ vectorSvg = Null
    /\ isProcessing = FALSE
    /\ params = DEFAULT_PARAMS
    /\ paramsRef = "DEFAULT"
    /\ presets = EmptyCatalog
    /\ selectedPreset = "clean"
    /\ isDragging = FALSE
    /\ presetsFetch = "pending"
    /\ reads = <<>>
    /\ timers = {[left |-> DEBOUNCE_MS, image |-> Null,
                  params |-> DEFAULT_PARAMS, current |-> TRUE]}
    /\ preparing = {}
    /\ inflight = {}
    /\ userEvents = 0
    /\ issued = 0
    /\ sinceChange = 0
    /\ burstReqs = 0
    /\ burstChanges = 1
    /\ lastParamsChange = "init"
    /\ lastLoad = NoLoad
    /\ lastOk = NoResponse
    /\ lastOutcome = "none"
    /\ resetSinceOk = FALSE
    /\ batchFirst = 0
    /\ droppedOther = FALSE
    /\ race = NoRace

\* Nothing handed to the sanitizer on its own
SanitizerIdle ==
    /\ markup = <<>>
    /\ cleanSvg = Null
    /\ cleanAgain = Null

NoSignIn == [outcome |-> "none", errorBefore |-> ""]

\* The mount of Login: useState('') three times, useState(false)
LoginMount ==
    /\ email = ""
    /\ password = ""
    /\ error = ""
    /\ loading = FALSE
    /\ signIns = {}
    /\ authUser = Null
    /\ submits = 0
    /\ lastSignIn = NoSignIn

Init == HomeMount /\ SanitizerIdle /\ LoginMount

(***************************************************************************)
(* Preset catalog: the mount effect's loadPresets.                         *)
(***************************************************************************)
\* response.ok, and response.json() yields data
LoadPresetsOk(data) ==
    /\ presetsFetch = "pending"
    /\ presetsFetch' = "done"
    /\ presets' = data
    /\ IF "clean" \in DOMAIN data
       THEN /\ params' = data["clean"].params
            /\ paramsRef' = "clean"
            /\ lastParamsChange' = "catalog"
            /\ DebounceEffect(originalImage, params')
       ELSE UNCHANGED <<params, paramsRef, lastParamsChange, debounceVars>>
    /\ UNCHANGED <<selectedPreset, imageVars, intakeVars, convertVars,
                   userEvents>>
    /\ UNCHANGED outsideHome

\* The body of the failed response stored as the catalog.
CatalogAfterFailure_BodyStored ==
    [k \in {"detail"} |->
        [name |-> "", description |-> "", params |-> DEFAULT_PARAMS]]

\* setPresets is reached only inside `if (response.ok)`, after json()
CatalogAfterFailure == presets

\* !response.ok (nothing runs), or fetch / json() throws (the catch logs)
LoadPresetsFail ==
    /\ presetsFetch = "pending"
    /\ presetsFetch' = "failed"
    /\ presets' = CatalogAfterFailure
    /\ UNCHANGED <<storeVars, imageVars, intakeVars, debounceVars,
                   convertVars, userEvents>>
    /\ UNCHANGED outsideHome

(***************************************************************************)
(* Parameter store.                                                        *)
(***************************************************************************)
\* { ...prev, [key]: value }
EditedParams(prev, key, value) ==
    [f \in DOMAIN prev \cup {key} |-> IF f = key THEN value ELSE prev[f]]

\* The selection demoted only when the value written differs.
SelectionAfterEdit_IfValueDiffers(key, value) ==
    IF key \in DOMAIN params /\ params[key] = value
    THEN selectedPreset ELSE "custom"

\* setSelectedPreset('custom')
SelectionAfterEdit(key, value) == "custom"

\* The setParams updater returns a new object on every call, so the debounce
\* effect runs again whatever the value.
updateParam(key, value) ==
    /\ userEvents < MaxUserEvents
    /\ userEvents' = userEvents + 1
    /\ params' = EditedParams(params, key, value)
    /\ paramsRef' = "edit"
    /\ selectedPreset' = SelectionAfterEdit(key, value)
    /\ lastParamsChange' = "edit"
    /\ DebounceEffect(originalImage, params')
    /\ UNCHANGED <<catalogVars, imageVars, intakeVars, convertVars>>
    /\ UNCHANGED outsideHome

\* The preset laid over the current params, field by field.
PresetParams_Merged(presetKey) ==
    [f \in DOMAIN params \cup DOMAIN presets[presetKey].params |->
        IF f \in DOMAIN presets[presetKey].params
        THEN presets[presetKey].params[f] ELSE params[f]]

\* presets[presetKey].params, the catalog's own object
PresetParams(presetKey) == presets[presetKey].params

\* setParams with the object params already is leaves the state as it is,
\* and no effect runs.
handlePresetChange(presetKey) ==
    /\ userEvents < MaxUserEvents
    /\ userEvents' = userEvents + 1
    /\ selectedPreset' = presetKey
    /\ IF presetKey # "custom" /\ presetKey \in DOMAIN presets
       THEN /\ params' = PresetParams(presetKey)
            /\ paramsRef' = presetKey
            /\ IF paramsRef # presetKey
               THEN /\ lastParamsChange' = "preset"
                    /\ DebounceEffect(originalImage, params')
               ELSE UNCHANGED <<lastParamsChange, debounceVars>>
       ELSE UNCHANGED <<params, paramsRef, lastParamsChange, debounceVars>>
    /\ UNCHANGED <<catalogVars, imageVars, intakeVars, convertVars>>
    /\ UNCHANGED outsideHome

(***************************************************************************)
(* Image intake.  The drop zone and its file input are rendered only while *)
(* originalImage is null; the clear button only while it is not.           *)
(***************************************************************************)
\* A file accepted while the read of exactly one other, the only one since
\* the intake was last idle, is pending opens a race of two reads; a further
\* file, or a read that fails, makes it something else.
RaceAfterAccept(file) ==
    IF reads = <<>> THEN NoRace
    ELSE IF Len(reads) = 1 /\ race = NoRace
         THEN [phase |-> "pending", last |-> file]
         ELSE VoidRace

\* new FileReader(); reader.readAsDataURL(file): the read completes later
processFile(file) ==
    /\ reads' = Append(reads, file)
    /\ race' = RaceAfterAccept(file)

\* onChange of the file input; e.target.files?.[0] may be undefined
handleImageUpload(file) ==
    /\ originalImage = Null
    /\ userEvents < MaxUserEvents
    /\ userEvents' = userEvents + 1
    /\ IF file # NoFile
       THEN processFile(file)
       ELSE UNCHANGED <<reads, race>>
    /\ UNCHANGED <<isDragging, droppedOther, catalogVars, storeVars,
                   imageVars, debounceVars, convertVars>>
    /\ UNCHANGED outsideHome

handleDragOver ==
    /\ originalImage = Null
    /\ userEvents < MaxUserEvents
    /\ userEvents' = userEvents + 1
    /\ isDragging' = TRUE
    /\ UNCHANGED <<reads, droppedOther, race, catalogVars, storeVars,
                   imageVars, debounceVars, convertVars>>
    /\ UNCHANGED outsideHome

handleDragLeave ==
    /\ originalImage = Null
    /\ userEvents < MaxUserEvents
    /\ userEvents' = userEvents + 1
    /\ isDragging' = FALSE
    /\ UNCHANGED <<reads, droppedOther, race, catalogVars, storeVars,
                   imageVars, debounceVars, convertVars>>
    /\ UNCHANGED outsideHome

\* Any file that was dropped is read.
DropAccepted_AnyFile(file) == file # NoFile

\* if (file && file.type.startsWith('image/'))
DropAccepted(file) ==
    file # NoFile /\ StartsWith(FileType(file), ImagePrefix)

handleDrop(file) ==
    /\ originalImage = Null
    /\ userEvents < MaxUserEvents
    /\ userEvents' = userEvents + 1
    /\ isDragging' = FALSE
    /\ IF DropAccepted(file)
       THEN processFile(file)
       ELSE UNCHANGED <<reads, race>>
    /\ droppedOther' = (/\ file # NoFile
                        /\ ~StartsWith(FileType(file), ImagePrefix)
                        /\ isDragging)
    /\ UNCHANGED <<catalogVars, storeVars, imageVars, debounceVars,
                   convertVars>>
    /\ UNCHANGED outsideHome

\* The result of the previous image kept.
SvgAfterLoad_Kept == vectorSvg

\* setVectorSvg(null): reset previous result
SvgAfterLoad == Null

\* reader.onload: event.target.result is the data URL.  Strings compare by
\* value: the debounce effect runs again only for another data URL.
ReaderOnload(i) ==
    /\ i \in DOMAIN reads
    /\ reads' = Remove(reads, i)
    /\ LET result == DataUrl(reads[i]) IN
       IF Truthy(result)
       THEN /\ originalImage' = result
            /\ vectorSvg' = SvgAfterLoad
            /\ lastLoad' = [done |-> TRUE, image |-> originalImage # Null,
                            svg |-> vectorSvg # Null, busy |-> isProcessing]
            /\ resetSinceOk' = TRUE
            /\ IF result # originalImage
               THEN DebounceEffect(result, params)
               ELSE UNCHANGED debounceVars
       ELSE UNCHANGED <<imageVars, debounceVars>>
    /\ race' = IF race.phase = "pending" /\ Len(reads) = 1
               THEN [race EXCEPT !.phase = "done"] ELSE race
    /\ UNCHANGED <<isDragging, droppedOther, catalogVars, storeVars,
                   convertVars, userEvents>>
    /\ UNCHANGED outsideHome

\* The read fails: no onerror handler is installed
ReaderError(i) ==
    /\ i \in DOMAIN reads
    /\ reads' = Remove(reads, i)
    /\ race' = IF race.phase = "pending" THEN VoidRace ELSE race
    /\ UNCHANGED <<isDragging, droppedOther, catalogVars, storeVars,
                   imageVars, debounceVars, convertVars, userEvents>>
    /\ UNCHANGED outsideHome

\* onClick of the clear button
ClearImage ==
    /\ originalImage # Null
    /\ userEvents < MaxUserEvents
    /\ userEvents' = userEvents + 1
    /\ originalImage' = Null
    /\ vectorSvg' = Null
    /\ resetSinceOk' = TRUE
    /\ DebounceEffect(Null, params)
    /\ race' = NoRace
    /\ UNCHANGED <<lastLoad, reads, isDragging, droppedOther, catalogVars,
                   storeVars, convertVars>>
    /\ UNCHANGED outsideHome

(***************************************************************************)
(* Time, and the conversion orchestrator.                                  *)
(***************************************************************************)
\* Time passes: d ms, or less when a timer is due sooner.  A timer that is
\* due fires before time moves on, and turning the data URL into a blob takes
\* no time that counts.
Tick(d) ==
    /\ \A t \in timers : t.left > 0
    /\ preparing = {}
    /\ LET step == IF timers = {} THEN d
                   ELSE Min(d, SetMin({t.left : t \in timers}))
       IN /\ timers' = {[t EXCEPT !.left = @ - step] : t \in timers}
          /\ sinceChange' = Min(sinceChange + step, SinceCap)
    /\ sinceChange' # sinceChange
    /\ UNCHANGED <<burstReqs, burstChanges, catalogVars, storeVars, imageVars,
                   intakeVars, convertVars, userEvents>>
    /\ UNCHANGED outsideHome

\* processImage up to its first await, with the originalImage and params its
\* useCallback closure holds: the conversion request is issued.  `at` notes
\* when, for the properties.
processImage(image, prm) ==
    IF ~Truthy(image)
    THEN UNCHANGED <<convertVars, burstReqs>>
    ELSE /\ isProcessing' = TRUE
         /\ preparing' = preparing \cup
                {[id |-> issued + 1, image |-> image, params |-> prm,
                  at |-> sinceChange]}
         /\ issued' = issued + 1
         /\ burstReqs' = burstReqs + 1
         /\ batchFirst' = IF preparing \cup inflight = {}
                          THEN issued + 1 ELSE batchFirst
         /\ UNCHANGED <<inflight, lastOk, lastOutcome>>

\* The setTimeout callback of the debounce effect
TimerFire(t) ==
    /\ t \in timers
    /\ t.left = 0
    /\ timers' = timers \ {t}
    /\ IF Truthy(t.image)
       THEN processImage(t.image, t.params)
       ELSE UNCHANGED <<convertVars, burstReqs>>
    /\ UNCHANGED <<sinceChange, burstChanges, catalogVars, storeVars, imageVars,
                   intakeVars, userEvents>>
    /\ UNCHANGED outsideHome

\* processImage after `await fetch(originalImage)` and `await response.blob()`:
\* the form is filled from the closure's params and POST /vectorize leaves.
\* No state is read or written here.
PostVectorize(r) ==
    /\ r \in preparing
    /\ preparing' = preparing \ {r}
    /\ inflight' = inflight \cup {r}
    /\ UNCHANGED <<isProcessing, issued, lastOk, lastOutcome, batchFirst,
                   catalogVars, storeVars, imageVars, intakeVars,
                   debounceVars, userEvents>>
    /\ UNCHANGED outsideHome

\* The flag left as it is when an attempt ends.
FlagAfterAttempt_Left == isProcessing

\* finally { setIsProcessing(false) }
FlagAfterAttempt == FALSE

\* A response written only when it answers the request issued last.
SvgAfterSuccess_LatestOnly(r, rawSvg) ==
    IF r.id = issued THEN Str(CleanSvg[rawSvg]) ELSE vectorSvg

\* setVectorSvg(cleanSvgResponse(rawSvg)), whichever request r is
SvgAfterSuccess(r, rawSvg) == Str(CleanSvg[rawSvg])

\* The result dropped when a conversion fails.
SvgAfterFailure_Dropped == Null

\* The catch block logs and sets nothing
SvgAfterFailure == vectorSvg

\* apiResponse.ok: the body is sanitized and stored; finally clears the flag
ConvertOk(r, rawSvg) ==
    /\ r \in inflight
    /\ inflight' = inflight \ {r}
    /\ vectorSvg' = SvgAfterSuccess(r, rawSvg)
    /\ isProcessing' = FlagAfterAttempt
    /\ lastOk' = [id |-> r.id, image |-> r.image, body |-> rawSvg]
    /\ lastOutcome' = "ok"
    /\ resetSinceOk' = FALSE
    /\ UNCHANGED <<originalImage, lastLoad, preparing, issued, batchFirst,
                   catalogVars, storeVars, intakeVars, debounceVars,
                   userEvents>>
    /\ UNCHANGED outsideHome

\* A non-2xx status (the code throws) or a rejected fetch: both reach the
\* catch block, which logs; finally clears the flag
ConvertFail(r) ==
    /\ r \in inflight
    /\ inflight' = inflight \ {r}
    /\ vectorSvg' = SvgAfterFailure
    /\ isProcessing' = FlagAfterAttempt
    /\ lastOutcome' = "failed"
    /\ UNCHANGED <<originalImage, lastLoad, resetSinceOk, lastOk, preparing,
                   issued, batchFirst, catalogVars, storeVars, intakeVars,
                   debounceVars, userEvents>>
    /\ UNCHANGED outsideHome

(***************************************************************************)
(* The specification.                                                      *)
(***************************************************************************)
PresetsArrive == \E data \in ServerCatalogs : LoadPresetsOk(data)
EditField ==
    \E key \in EditKeys : \E value \in EditValues(key) : updateParam(key, value)
ClickPreset == \E presetKey \in PresetKeys : handlePresetChange(presetKey)
ChooseFile == \E file \in Files \cup {NoFile} : handleImageUpload(file)
DropFile == \E file \in Files \cup {NoFile} : handleDrop(file)
ReadCompletes == \E i \in DOMAIN reads : ReaderOnload(i)
ReadFails == \E i \in DOMAIN reads : ReaderError(i)
TimePasses == \E d \in Steps : Tick(d)
TimerFires == \E t \in timers : TimerFire(t)
RequestLeaves == \E r \in preparing : PostVectorize(r)
ConversionSucceeds ==
    \E r \in inflight : \E rawSvg \in RawBodies : ConvertOk(r, rawSvg)
ConversionFails == \E r \in inflight : ConvertFail(r)

Next ==
    \/ PresetsArrive
    \/ LoadPresetsFail
    \/ EditField
    \/ ClickPreset
    \/ ChooseFile
    \/ handleDragOver
    \/ handleDragLeave
    \/ DropFile
    \/ ReadCompletes
    \/ ReadFails
    \/ ClearImage
    \/ TimePasses
    \/ TimerFires
    \/ RequestLeaves
    \/ ConversionSucceeds
    \/ ConversionFails

Spec == Init /\ [][Next]_vars

(***************************************************************************)
(* The output sanitizer on its own: cleanSvgResponse applied to markup put *)
(* together from fragments of the patterns it looks for, and applied again *)
(* to what it returned.  The conversion service is outside the repository  *)
(* and may answer any text.                                                *)
(***************************************************************************)
FillHead == SubSeq(BlackFill, 1, 10)
FillTail == SubSeq(BlackFill, 11, Len(BlackFill))
MetaBlock == MetaOpen \o <<"t">> \o MetaClose
NsDecl == NsDeclOpen \o <<"u", Quote>>
Pieces ==
    {<<"n">>, NsPrefix, <<"s", "0", ":">>,
     FillHead, FillTail, BlackFill,
     SubSeq(MetaOpen, 1, 5), SubSeq(MetaOpen, 6, Len(MetaOpen)), MetaClose,
     MetaBlock, NsDecl}

\* The concatenation of a sequence of fragments
RECURSIVE Concat(_)
Concat(pieces) ==
    IF pieces = <<>> THEN <<>> ELSE Head(pieces) \o Concat(Tail(pieces))

Markups ==
    {Concat(pieces) : pieces \in UNION {[1..n -> Pieces] : n \in 0..MaxPieces}}

SanitizerInit ==
    /\ HomeMount
    /\ LoginMount
    /\ markup \in Markups
    /\ cleanSvg = Null
    /\ cleanAgain = Null

\* const cleanSvg = cleanSvgResponse(rawSvg)
Sanitize ==
    /\ cleanSvg = Null
    /\ cleanSvg' = Str(cleanSvgResponse(markup))
    /\ UNCHANGED <<markup, cleanAgain, homeVars, loginVars>>

\* cleanSvgResponse applied to its own output
SanitizeAgain ==
    /\ cleanSvg # Null
    /\ cleanAgain = Null
    /\ cleanAgain' = Str(cleanSvgResponse(cleanSvg.chars))
    /\ UNCHANGED <<markup, cleanSvg, homeVars, loginVars>>

SanitizerNext == Sanitize \/ SanitizeAgain

SanitizerSpec == SanitizerInit /\ [][SanitizerNext]_vars

(***************************************************************************)
(* The credential gate: component Login (src/app/components/Login.tsx).    *)
(* Who mounts and unmounts it is outside these sources, so the form is     *)
(* taken to stay usable after a sign-in succeeded.                         *)
(***************************************************************************)
\* What the user may type into the two fields
Emails == {"", "usuario@tms.com", "otro@tms.com"}
Passwords == {"", "secreto", "errado"}

\* setError('Credenciales inválidas. Acceso denegado.'), written without its
\* accent
DenialMessage == "Credenciales invalidas. Acceso denegado."

\* onChange of the e-mail field
setEmail(value) ==
    /\ value # email
    /\ email' = value
    /\ UNCHANGED <<password, error, loading, signIns, authUser, submits,
                   lastSignIn, homeVars, sanitizerVars>>

\* onChange of the password field
setPassword(value) ==
    /\ value # password
    /\ password' = value
    /\ UNCHANGED <<email, error, loading, signIns, authUser, submits,
                   lastSignIn, homeVars, sanitizerVars>>

\* The submit button never disabled.
SubmitEnabled_Always == TRUE

\* <button type="submit" disabled={loading}>: a disabled submit button also
\* blocks submission by the Enter key
SubmitEnabled == ~loading

\* setError('')
ErrorOnSubmit == ""

\* The form's submit event reaches handleLogin only with both `required`
\* fields filled and the button enabled.  handleLogin up to its await.
handleLogin ==
    /\ submits < MaxSubmits
    /\ SubmitEnabled
    /\ email # ""
    /\ password # ""
    /\ submits' = submits + 1
    /\ loading' = TRUE
    /\ error' = ErrorOnSubmit
    /\ signIns' = signIns \cup
            {[id |-> submits + 1, email |-> email, password |-> password,
              errorBefore |-> error]}
    /\ UNCHANGED <<email, password, authUser, lastSignIn, homeVars,
                   sanitizerVars>>

\* signInWithEmailAndPassword resolves: the provider has a signed-in user;
\* finally { setLoading(false) }
SignInOk(a) ==
    /\ a \in signIns
    /\ signIns' = signIns \ {a}
    /\ authUser' = Str(<<a.email>>)
    /\ loading' = FALSE
    /\ lastSignIn' = [outcome |-> "ok", errorBefore |-> a.errorBefore]
    /\ UNCHANGED <<email, password, error, submits, homeVars, sanitizerVars>>

\* signInWithEmailAndPassword rejects, whatever the reason: the catch sets
\* the one message; finally { setLoading(false) }
SignInFail(a) ==
    /\ a \in signIns
    /\ signIns' = signIns \ {a}
    /\ error' = DenialMessage
    /\ loading' = FALSE
    /\ lastSignIn' = [outcome |-> "failed", errorBefore |-> a.errorBefore]
    /\ UNCHANGED <<email, password, authUser, submits, homeVars,
                   sanitizerVars>>

TypeEmail == \E value \in Emails : setEmail(value)
TypePassword == \E value \in Passwords : setPassword(value)
SignInSucceeds == \E a \in signIns : SignInOk(a)
SignInFails == \E a \in signIns : SignInFail(a)

LoginInit == HomeMount /\ SanitizerIdle /\ LoginMount

LoginNext ==
    \/ TypeEmail
    \/ TypePassword
    \/ handleLogin
    \/ SignInSucceeds
    \/ SignInFails

LoginSpec == LoginInit /\ [][LoginNext]_vars

(***************************************************************************)
(* Properties.                                                             *)
(***************************************************************************)
\* C1: whenever vectorSvg is present, it is the sanitized body of a
\* successful conversion request that was issued for the originalImage that
\* is current: the pair never shows the output of another input.
C1_SvgIsOfCurrentImage ==
    vectorSvg # Null =>
        /\ vectorSvg = Str(cleanSvgResponse(lastOk.body))
        /\ lastOk.image = originalImage

\* C2: with an image present, a burst of changes, each less than 500 ms after
\* the one before, issues exactly one conversion request, 500 ms after its
\* last change: none before the 500 ms are over, at most one ever, one once
\* they are over, and every request leaves 500 ms after the last change.
C2_OneRequestPerBurst ==
    /\ burstReqs <= 1
    /\ sinceChange < DEBOUNCE_MS => burstReqs = 0
    /\ (sinceChange > DEBOUNCE_MS /\ Truthy(originalImage)) => burstReqs = 1
    /\ \A r \in preparing \cup inflight : r.at = DEBOUNCE_MS

\* A burst of two changes has been followed by its one request.
C2_Witness ==
    /\ burstChanges = 2
    /\ burstReqs = 1
    /\ Truthy(originalImage)
    /\ sinceChange > DEBOUNCE_MS

\* C3: when the catalog load completes with a "clean" entry, then right
\* afterwards params is clean.params and the selection is "clean", whatever
\* the user did before the catalog arrived.
C3_CatalogLoadSelectsClean ==
    [][(presetsFetch = "pending" /\ presetsFetch' = "done"
            /\ "clean" \in DOMAIN presets')
        => (params' = presets'["clean"].params /\ selectedPreset' = "clean")]_vars

\* C4: handlePresetChange(key), for a key of the loaded catalog, leaves
\* params equal to the catalog's params for that key, field for field, and
\* the selection equal to key.
C4_PresetAppliedWholesale ==
    [][\A key \in PresetKeys :
          (key \in DOMAIN presets /\ handlePresetChange(key))
          => (params' = presets[key].params /\ selectedPreset' = key)]_vars

\* A preset of the catalog has been applied.
C4_Witness ==
    /\ lastParamsChange = "preset"
    /\ selectedPreset \in DOMAIN presets
    /\ params = presets[selectedPreset].params

\* C5: updateParam(key, value) sets that one field to value, leaves every
\* other field as it was, and sets the selection to "custom" whatever the
\* value written.
C5_EditOneFieldSelectsCustom ==
    [][\A key \in EditKeys : \A value \in EditValues(key) :
          updateParam(key, value)
          => /\ params'[key] = value
             /\ DOMAIN params' = DOMAIN params \cup {key}
             /\ \A f \in DOMAIN params \ {key} : params'[f] = params[f]
             /\ selectedPreset' = "custom"]_vars

\* An edit wrote a value equal to the clean preset's: params is still
\* clean.params, and the selection is "custom".
C5_Witness ==
    /\ lastParamsChange = "edit"
    /\ "clean" \in DOMAIN presets
    /\ params = presets["clean"].params
    /\ selectedPreset = "custom"

\* C6: whenever params was last changed by a field edit, the selection is
\* "custom".
C6_EditedMeansCustom == lastParamsChange = "edit" => selectedPreset = "custom"

\* C7: when a file read completes and the image is stored, vectorSvg is
\* absent right afterwards, whatever was there before.
C7_LoadClearsSvg ==
    [][ReadCompletes
        => (Truthy(originalImage') /\ vectorSvg' = Null)]_vars

\* A read completed over a present image, a present result and a conversion
\* in flight.
C7_Witness ==
    /\ lastLoad.done /\ lastLoad.image /\ lastLoad.svg /\ lastLoad.busy
    /\ vectorSvg = Null

\* C8: a step that issues a conversion request leaves isProcessing true; a
\* step in which a request ends, in success or failure, leaves it false.
C8_FlagSetAndCleared ==
    [][/\ issued' # issued => isProcessing' = TRUE
       /\ (\E r \in inflight : r \notin inflight') => isProcessing' = FALSE]_vars

\* A conversion has failed and the flag is down.
C8_Witness ==
    /\ lastOutcome = "failed"
    /\ preparing \cup inflight = {}
    /\ isProcessing = FALSE

\* C9: a failed conversion leaves vectorSvg, originalImage, params, the
\* selection and the catalog as they were, and isProcessing false.
C9_FailureKeepsState ==
    [][ConversionFails
        => /\ UNCHANGED <<vectorSvg, originalImage, params, selectedPreset,
                          presets>>
           /\ isProcessing' = FALSE]_vars

\* A conversion failed while an earlier result was shown, and the result is
\* still there.
C9_Witness ==
    /\ lastOutcome = "failed"
    /\ vectorSvg # Null
    /\ ~resetSinceOk

\* The requests that overlapped have all resolved, one of them successfully.
OverlapResolved ==
    /\ preparing \cup inflight = {}
    /\ issued > batchFirst
    /\ lastOk.id >= batchFirst
    /\ batchFirst > 0

\* C10 as stated: once overlapping requests have all resolved, vectorSvg is
\* the sanitized body of the successful response that resolved last.
C10_LastResponseWins ==
    OverlapResolved => vectorSvg = Str(cleanSvgResponse(lastOk.body))

\* C10, amended: no request is cancelled (one leaves only by resolving), and
\* once overlapping requests have all resolved, vectorSvg is the sanitized
\* body of the successful response that resolved last, unless an image load
\* or a clear came after that response.
C10_LastResponseWinsUnlessReset ==
    /\ []((OverlapResolved /\ ~resetSinceOk)
            => vectorSvg = Str(cleanSvgResponse(lastOk.body)))
    /\ [][\A r \in inflight :
            r \notin inflight'
            => (lastOutcome' = "failed" \/ lastOk'.id = r.id)]_vars

\* The response that resolved last and won belongs to a request issued before
\* another one of the overlap.
C10_Witness ==
    /\ OverlapResolved
    /\ ~resetSinceOk
    /\ lastOk.id < issued
    /\ lastOutcome = "ok"
    /\ vectorSvg = Str(cleanSvgResponse(lastOk.body))

\* C11: cleanSvgResponse is idempotent: applied to its own output it returns
\* that output, for every markup, also one in which removing an occurrence
\* of a pattern puts a new occurrence together.
C11_SanitizerIdempotent == cleanAgain # Null => cleanAgain = cleanSvg

\* s holds a <metadata>...</metadata> block
HasMetadataBlock(s) ==
    \E i \in Occurrences(s, 1, MetaOpen) :
        Occurrences(s, i + Len(MetaOpen), MetaClose) # {}

\* C12: for every markup, what cleanSvgResponse returns holds no
\* fill="#000000" and no <metadata>...</metadata> block.
C12_NoBlackFillNoMetadata ==
    cleanSvg # Null =>
        /\ Occurrences(cleanSvg.chars, 1, BlackFill) = {}
        /\ ~HasMetadataBlock(cleanSvg.chars)

\* C13: dropping a file whose media type is no image sets isDragging to
\* false and changes nothing else: not originalImage, vectorSvg, params, the
\* selection, isProcessing or the catalog; no read is started, the debounce
\* timer is not re-armed, no request is issued.
C13_NonImageDropOnlyLowersFlag ==
    [][\A file \in Files :
          (~StartsWith(FileType(file), ImagePrefix) /\ handleDrop(file))
          => /\ isDragging' = FALSE
             /\ UNCHANGED <<originalImage, vectorSvg, params, selectedPreset,
                            isProcessing, presets, reads, timers, preparing,
                            inflight, issued>>]_vars

\* A file that is no image was dropped on the highlighted drop zone: the
\* highlight is gone and no read was started.
C13_Witness ==
    /\ droppedOther
    /\ ~isDragging
    /\ reads = <<>>
    /\ originalImage = Null

\* C14: handleImageUpload takes a file only when its media type starts with
\* image/, as handleDrop does: choosing any other file starts no read, leaves
\* originalImage and vectorSvg as they were and schedules no conversion.
C14_SelectionRequiresImageType ==
    [][\A file \in Files :
          (~StartsWith(FileType(file), ImagePrefix) /\ handleImageUpload(file))
          => UNCHANGED <<reads, originalImage, vectorSvg, timers>>]_vars

\* C15: no conversion request is issued while originalImage is absent: the
\* timer that is armed holds the originalImage that is current (a timer armed
\* with an image does not survive the image being cleared), and a step that
\* issues a request starts and ends with originalImage present and issues it
\* for that image.
C15_NoRequestWithoutImage ==
    /\ [](\A t \in timers : t.image = originalImage)
    /\ [][issued' # issued
            => /\ Truthy(originalImage)
               /\ Truthy(originalImage')
               /\ \A r \in preparing' \ preparing : r.image = originalImage]_vars

\* An image was loaded and cleared before its 500 ms were over; the timer
\* armed by the clear has fired, and no request was ever issued.
C15_Witness ==
    /\ lastLoad.done
    /\ originalImage = Null
    /\ timers = {}
    /\ sinceChange > DEBOUNCE_MS
    /\ issued = 0

\* C16: handlePresetChange(key) with a key that is no entry of the current
\* catalog changes neither params nor the selection.  Stated for the keys
\* other than "custom", which is never an entry.
C16_UnknownPresetIsNoOp ==
    [][\A key \in PresetKeys \ {"custom"} :
          (key \notin DOMAIN presets /\ handlePresetChange(key))
          => UNCHANGED <<params, selectedPreset>>]_vars

\* C17: vectorSvg is destroyed whenever a new conversion starts: a step that
\* issues a conversion request (and sets isProcessing) leaves vectorSvg
\* absent, so that no earlier result stands beside a newer conversion in
\* flight.
C17_StartDestroysSvg == [][issued' # issued => vectorSvg' = Null]_vars

\* C18: when the catalog load fails, the catalog stays the empty mapping and
\* the load changes neither params nor the selection nor any other state of
\* the component (there is no error state); as long as the user changes
\* nothing, params is DEFAULT_PARAMS.
C18_FailedLoadKeepsDefaults ==
    /\ [](presetsFetch = "failed"
            => /\ presets = EmptyCatalog
               /\ lastParamsChange \in {"init", "edit"}
               /\ lastParamsChange = "init" => params = DEFAULT_PARAMS)
    /\ [][LoadPresetsFail
            => UNCHANGED <<presets, params, selectedPreset, originalImage,
                           vectorSvg, isProcessing, isDragging, timers>>]_vars

\* The load failed, the user edited nothing, and a conversion is under way
\* with DEFAULT_PARAMS.
C18_Witness ==
    /\ presetsFetch = "failed"
    /\ presets = EmptyCatalog
    /\ lastParamsChange = "init"
    /\ \E r \in inflight : r.params = DEFAULT_PARAMS

\* C19: in the credential gate, loading is true exactly while a sign-in
\* attempt is unresolved, and at most one is unresolved at a time; a failed
\* attempt sets the one denial message and signs nobody in; every submission
\* clears the error first; loading is false after success and after failure.
C19_OneSignInAtATime ==
    /\ [](loading <=> signIns # {})
    /\ [](Cardinality(signIns) <= 1)
    /\ [][SignInFails
            => (error' = DenialMessage /\ authUser' = authUser)]_vars
    /\ [][handleLogin => (error' = "" /\ loading' = TRUE)]_vars
    /\ [][(SignInSucceeds \/ SignInFails) => loading' = FALSE]_vars

\* A second attempt, submitted while the denial message of the first was
\* shown, has failed too: the message is back, the button is enabled, nobody
\* is signed in.
C19_Witness ==
    /\ lastSignIn.outcome = "failed"
    /\ lastSignIn.errorBefore = DenialMessage
    /\ error = DenialMessage
    /\ ~loading
    /\ signIns = {}
    /\ authUser = Null

\* C20: every conversion request carries the originalImage and the whole
\* params that are current when the debounce timer fires: the armed timer
\* holds the current values, the request issued is made of them and leaves
\* as issued; an upload before the catalog has arrived, with nothing else
\* changing params, is converted with DEFAULT_PARAMS.
C20_RequestCarriesCurrentState ==
    /\ [](\A t \in timers : t.image = originalImage /\ t.params = params)
    /\ [][issued' # issued
            => \A r \in preparing' \ preparing :
                  /\ r.image = originalImage
                  /\ r.params = params
                  /\ (presetsFetch = "pending" /\ lastParamsChange = "init")
                        => r.params = DEFAULT_PARAMS]_vars
    /\ [][\A r \in preparing : r \notin preparing' => r \in inflight']_vars

\* The catalog has not arrived, the user changed no parameter, and the
\* request for the loaded image is on its way with DEFAULT_PARAMS.
C20_Witness ==
    /\ presetsFetch = "pending"
    /\ lastParamsChange = "init"
    /\ \E r \in inflight :
          r.image = originalImage /\ r.params = DEFAULT_PARAMS

\* C21: at most one debounce timer is pending at any time: every change of
\* params or originalImage leaves exactly the timer it arms, set to 500 ms
\* and holding the new values, and a timer that fires is the only one there
\* is, so a cancelled timer never fires.
C21_OnePendingTimer ==
    /\ [](Cardinality(timers) <= 1)
    /\ [][(params' # params \/ originalImage' # originalImage)
            => timers' = {[left |-> DEBOUNCE_MS, image |-> originalImage',
                           params |-> params', current |-> TRUE]}]_vars
    /\ [][\A t \in timers :
            TimerFire(t) => (timers = {t} /\ t.current /\ timers' = {})]_vars

\* A change came less than 500 ms after the one before: the timer of that
\* one was cancelled, and the only timer is the fresh one.
C21_Witness ==
    /\ burstChanges = 2
    /\ Truthy(originalImage)
    /\ timers = {[left |-> DEBOUNCE_MS, image |-> originalImage,
                  params |-> params, current |-> TRUE]}

\* C22: isProcessing is true in every state in which a conversion request is
\* issued and not yet resolved, also after an overlapping request has
\* resolved.
C22_FlagWhileInFlight == (preparing \cup inflight # {}) => isProcessing

\* C23: whenever the selection is a key other than "custom" that the catalog
\* holds, the current params are that catalog entry's params.
C23_SelectionMatchesParams ==
    (selectedPreset # "custom" /\ selectedPreset \in DOMAIN presets)
        => params = presets[selectedPreset].params

\* C24: vectorSvg is present only while originalImage is present.
C24_SvgOnlyWithImage == vectorSvg # Null => originalImage # Null

\* Nothing is left to happen unless the user acts: no read, no timer, no
\* request and no catalog load is pending.
Settled ==
    /\ reads = <<>>
    /\ timers = {}
    /\ preparing \cup inflight = {}
    /\ presetsFetch # "pending"

\* C25: once an image is present and everything pending has run its course,
\* a conversion request was issued for the current image and params, no
\* request is in flight, isProcessing is false, and vectorSvg is present if
\* the response that resolved last was successful.
C25_SettlesWithResult ==
    (Settled /\ originalImage # Null)
        => /\ burstReqs >= 1
           /\ ~isProcessing
           /\ lastOutcome = "ok" => vectorSvg # Null

\* C26: when two files were accepted before either read completed and both
\* reads have completed, in whichever order, originalImage is the data URL of
\* the file accepted last.
C26_LastAcceptedWins ==
    race.phase = "done" => originalImage = DataUrl(race.last)

====
